---- MODULE Spec2Model ----
(***************************************************************************)
(* Model of the dl_wm task router: the metadata documents, the URL index   *)
(* (index.jsonl), the downloader chain of bin/call_download.py, the        *)
(* document-store functions of lib/tasks_lib.py and the orchestrator       *)
(* bin/call_router.py.                                                     *)
(*                                                                         *)
(* Encoding of the JSON values of a task entry:                            *)
(*   true  -> True, false -> False, "path" -> Str(path), missing -> None   *)
(* A media path in the output directory is <<stem, n, suffix>>: the file   *)
(* stem, the counter unique_output_path appended (0: none) and the suffix  *)
(* a worker added.  A document path in the metadata directory is           *)
(* <<id, n>>.  A missing index.jsonl and an empty one behave alike in      *)
(* every function modelled here, so the index is a sequence of records.    *)
(***************************************************************************)
EXTENDS Naturals, Sequences, FiniteSets, TLC

VARIABLES
    registry,      \* conf/default_tasks.json: ordered map task -> True/False
    index,         \* metadata/index.jsonl: sequence of index records
    docs,          \* metadata/*.json: document path -> document or NoDoc
    files,         \* media files present in the output directory
    parts,         \* media paths whose ".part" file is present
    sidecars,      \* output-directory params JSON: set of <<media path, url>>
    raw,           \* metadata/raw/<id>.json.gz: the ids whose raw capture is present
    dirs,          \* the directories that exist
    pc,            \* position of the router process
    url,           \* router: its URL argument
    dry_run,       \* router: --dry-run given
    found_file,    \* router: path returned by find_url_json
    found_data,    \* router: document returned by find_url_json
    to_process,    \* router: recorded output path of the download
    i,             \* router: position of execute_tasks in task_config
    elapsed,       \* router: seconds waited in wait_for_download_file
    writers,       \* per URL, the process that is writing its index record
    invoked,       \* history: workers run by execute_tasks in this run
    dl,            \* history: the download worker's invocation in this run
    outcome,       \* history: how the run ended
    start,         \* history: what the run saw when it started
    runs,          \* history: number of runs started
    ext,           \* history: the environment acted since the run started
    call           \* history: the last direct call of an index function

fsvars == <<registry, index, docs, files, parts, sidecars, raw, dirs>>
procvars == <<pc, url, dry_run, found_file, found_data, to_process, i, elapsed,
              writers>>
histvars == <<invoked, dl, outcome, start, runs, ext, call>>
vars == <<registry, index, docs, files, parts, sidecars, raw, dirs,
          pc, url, dry_run, found_file, found_data, to_process, i, elapsed,
          writers, invoked, dl, outcome, start, runs, ext, call>>

---------------------------------------------------------------------------
(* Bounds of the model *)

MaxCopies == 1     \* unique_output_path counters range over 0..MaxCopies
MaxRuns == 2       \* router runs in one behaviour
MaxRecords == 2    \* records of index.jsonl when its functions are called directly
MaxCommands == 3   \* downloads and cleanups run from the command line

URLS == {"u1", "u2"}
RunUrls == {"u1"}  \* the URLs call_router.py is run on

---------------------------------------------------------------------------
(* JSON values *)

True == [tag |-> "bool", b |-> TRUE]
False == [tag |-> "bool", b |-> FALSE]
None == [tag |-> "none"]
Str(p) == [tag |-> "str", s |-> p]
IsStr(v) == v.tag = "str"

NoDoc == [tag |-> "nofile"]
(* A file that is there and whose content json.load rejects.               *)
Corrupt == [tag |-> "corrupt"]
NoPath == <<>>

(* Ordered mapping (a Python dict keeps insertion order): a sequence of    *)
(* <<key, value>> pairs with distinct keys.                                *)
Keys(m) == {m[k][1] : k \in DOMAIN m}
Has(m, key) == key \in Keys(m)
Get(m, key) ==
    IF Has(m, key)
    THEN m[CHOOSE k \in DOMAIN m : m[k][1] = key][2]
    ELSE None
Put(m, key, val) ==
    IF Has(m, key)
    THEN [k \in DOMAIN m |-> IF m[k][1] = key THEN <<key, val>> ELSE m[k]]
    ELSE Append(m, <<key, val>>)
SetDefault(m, key, val) == IF Has(m, key) THEN m ELSE Append(m, <<key, val>>)

---------------------------------------------------------------------------
(* Names and paths *)

PERFORM_DOWNLOAD == "perform_download"
APPLY_WATERMARK == "apply_watermark"
MAKE_CLIPS == "make_clips"

(* TASK_DISPATCH: the tasks that have a script, in the order declared.     *)
TASK_DISPATCH ==
    <<PERFORM_DOWNLOAD, APPLY_WATERMARK, MAKE_CLIPS, "extract_audio",
      "generate_captions", "post_process">>
HasScript(task) == \E k \in DOMAIN TASK_DISPATCH : TASK_DISPATCH[k] = task

NoUrl == "null"
NoId == "null"
Counters == 0..MaxCopies
IdOf(u) == u                       \* the extractor's video id of a URL
UPLOADER_DATE(u) == u              \* "<uploader>_<video_date>" of a URL
UNKNOWN == "unknown_uploader_unknown_date"
Stems == URLS \cup {UNKNOWN}
DocPaths == {IdOf(u) : u \in URLS} \X Counters
MediaPaths == Stems \X Counters \X {""}

(* A metadata file: url and default_tasks (has_tasks: the key is there),   *)
(* and keys, the names of its other top-level fields.                      *)
Doc(u, id, has, tasks, keys) ==
    [tag |-> "doc", url |-> u, id |-> id, has_tasks |-> has, tasks |-> tasks,
     keys |-> keys]
IsDoc(d) == d.tag = "doc"
(* found_data.get("default_tasks", {}) *)
DefaultTasks(d) == IF IsDoc(d) /\ d.has_tasks THEN d.tasks ELSE <<>>

(* unique_output_path: the plain name, then _1, _2, ... : the first one    *)
(* that does not exist.  taken is the set of counters whose name exists.   *)
HasFree(taken) == \E n \in Counters : n \notin taken
unique_output_path(taken) ==
    CHOOSE n \in Counters : n \notin taken /\ \A m \in 0..n : m = n \/ m \in taken

DocCounters(dd, id) == {n \in Counters : dd[<<id, n>>] # NoDoc}
MediaCounters(ff, stem) == {n \in Counters : <<stem, n, "">> \in ff}

---------------------------------------------------------------------------
(* lib/tasks_lib.py *)

(* find_url_json: the metadata_file of the last index record of the url,   *)
(* and the document if that file exists and parses (lines 192-201).        *)
(* A lookup that keeps the first matching record.                          *)
LastMatch_First(ix, u) ==
    LET hits == {k \in DOMAIN ix : ix[k].url = u}
    IN  IF hits = {} THEN NoPath
        ELSE ix[CHOOSE k \in hits : \A j \in hits : k <= j].metadata_file
LastMatch(ix, u) ==
    LET hits == {k \in DOMAIN ix : ix[k].url = u}
    IN  IF hits = {} THEN NoPath
        ELSE ix[CHOOSE k \in hits : \A j \in hits : j <= k].metadata_file
(* A lookup that falls back to the last record whose document exists.     *)
find_url_json_Fallback(u, ix, dd) ==
    LET hits == {k \in DOMAIN ix : ix[k].url = u /\ IsDoc(dd[ix[k].metadata_file])}
    IN  IF hits = {} THEN [file |-> NoPath, data |-> None]
        ELSE LET k == CHOOSE k \in hits : \A j \in hits : j <= k
             IN  [file |-> ix[k].metadata_file, data |-> dd[ix[k].metadata_file]]
find_url_json(u, ix, dd) ==
    LET metadata_file == LastMatch(ix, u)
    IN  IF metadata_file # NoPath /\ IsDoc(dd[metadata_file])
        THEN [file |-> metadata_file, data |-> dd[metadata_file]]
        ELSE [file |-> NoPath, data |-> None]

(* upsert_metadata_index: drop the records of the url, append the new one, *)
(* rewrite the file.  Nothing is done when metadata_path is spelled        *)
(* without a directory (metadata_dir is os.path.dirname(metadata_path),    *)
(* lines 209-211) nor for a document without url (lines 215-217).          *)
METADATA_DIR == "metadata"
NoDir == ""
(* metadata_dir/raw, and the download directory of conf/config.json.       *)
RAW_DIR == "metadata/raw"
OUTPUT_DIR == "output"
(* An index that is only appended to.                                      *)
FilterOut_KeepAll(ix, u) == ix
FilterOut(ix, u) == SelectSeq(ix, LAMBDA r : r.url # u)
upsert_metadata_index(ix, metadata_dir, metadata_path, metadata) ==
    IF metadata_dir = NoDir \/ metadata.url = NoUrl THEN ix
    ELSE Append(FilterOut(ix, metadata.url),
                [url |-> metadata.url, metadata_file |-> metadata_path,
                 id |-> metadata.id, shortcode |-> NoUrl])

(* The loop "for task, status in default_tasks.items(): setdefault".       *)
RECURSIVE SeedDefaults(_, _)
SeedDefaults(tasks, reg) ==
    IF reg = <<>> THEN tasks
    ELSE SeedDefaults(SetDefault(tasks, Head(reg)[1], Head(reg)[2]), Tail(reg))

(* conf/ holds no file: neither config.json nor default_tasks.json.        *)
Missing == <<<<"missing", None>>>>
(* write_masked_metadata_with_tasks, lines 464-468: load_default_tasks     *)
(* raises FileNotFoundError when the file is missing; the error is logged  *)
(* and the defaults are empty.                                             *)
load_default_tasks(reg) == IF reg = Missing THEN <<>> ELSE reg

(* write_masked_metadata_with_tasks: the document rebuilt at metadata_path *)
(* from the prior version's default_tasks and url, the allow-listed params *)
(* (p_id: NoId when absent), params["url"], the registry defaults and the  *)
(* download's output path (NoPath when params has neither to_process nor   *)
(* original_filename).  Returns the documents and the index.               *)
MASKED_KEYS ==
    {"video_title", "video_date", "uploader", "file_path", "duration", "width",
     "height", "id", "ext", "resolution", "fps", "channels", "filesize", "tbr",
     "protocol", "vcodec", "vbr", "acodec", "abr", "asr"}
(* The keys of params when call_download.main reaches the call: those of   *)
(* lines 130-137 of bin/call_download.py, those mask_metadata added when   *)
(* the extraction gave metadata, and original_filename.                    *)
ParamKeys(p_id, output_path) ==
    {"download_path", "cookie_path", "video_download", "metadata_path"}
        \cup (IF p_id # NoId
              THEN {"id", "video_title", "video_date", "uploader", "ext",
                    "raw_metadata_path"}
              ELSE {})
        \cup (IF output_path # NoPath THEN {"original_filename"} ELSE {})
(* A writer that starts from the prior version instead of an empty dict.   *)
MaskedDocument_Merge(existing, p_url, p_id, output_path, reg) ==
    LET kept == IF IsDoc(existing) /\ existing.has_tasks
                THEN existing.tasks ELSE <<>>
        u0 == IF IsDoc(existing) THEN existing.url ELSE NoUrl
        u1 == IF p_url # NoUrl THEN p_url ELSE u0
        seeded == SeedDefaults(kept, reg)
        tasks == IF output_path # NoPath
                 THEN Put(seeded, PERFORM_DOWNLOAD, Str(output_path))
                 ELSE seeded
        old == IF IsDoc(existing) THEN existing.keys ELSE {}
    IN  Doc(u1, p_id, TRUE, tasks,
            old \cup (ParamKeys(p_id, output_path) \cap MASKED_KEYS))
MaskedDocument(existing, p_url, p_id, output_path, reg) ==
    LET kept == IF IsDoc(existing) /\ existing.has_tasks
                THEN existing.tasks ELSE <<>>
        u0 == IF IsDoc(existing) THEN existing.url ELSE NoUrl
        u1 == IF p_url # NoUrl THEN p_url ELSE u0
        seeded == SeedDefaults(kept, load_default_tasks(reg))
        tasks == IF output_path # NoPath
                 THEN Put(seeded, PERFORM_DOWNLOAD, Str(output_path))
                 ELSE seeded
    IN  Doc(u1, p_id, TRUE, tasks, ParamKeys(p_id, output_path) \cap MASKED_KEYS)
write_masked_metadata_with_tasks(ix, dd, metadata_dir, metadata_path, p_url, p_id, output_path, reg) ==
    LET metadata == MaskedDocument(dd[metadata_path], p_url, p_id, output_path, reg)
    IN  [docs |-> [dd EXCEPT ![metadata_path] = metadata],
         index |-> upsert_metadata_index(ix, metadata_dir, metadata_path, metadata)]

(* An update that does not look at the output path it is given.           *)
update_task_output_path_Unchecked(dd, metadata_path, task, output_path) ==
    IF dd[metadata_path] = NoDoc THEN dd
    ELSE IF IsDoc(dd[metadata_path]) /\ dd[metadata_path].has_tasks
         THEN [dd EXCEPT ![metadata_path].tasks = Put(@, task, Str(output_path))]
         ELSE dd
(* update_task_output_path: tasks[task] = output_path, whatever it held.   *)
(* A file json.load rejects is left as it is (the except of line 527).     *)
update_task_output_path(dd, metadata_path, task, output_path) ==
    IF dd[metadata_path] = NoDoc \/ output_path = NoPath THEN dd
    ELSE IF IsDoc(dd[metadata_path]) /\ dd[metadata_path].has_tasks
         THEN [dd EXCEPT ![metadata_path].tasks = Put(@, task, Str(output_path))]
         ELSE dd

(* extend_metadata_with_task_output, the definition of lines 284-335 (it   *)
(* replaces the one of lines 119-155): params["full_metadata_json"],       *)
(* params["task"] and the output path params gives.                        *)
extend_metadata_with_task_output(dd, json_path, task, output_path) ==
    IF dd[json_path] = NoDoc THEN dd
    ELSE IF IsDoc(dd[json_path]) /\ dd[json_path].has_tasks /\ output_path # NoPath
         THEN [dd EXCEPT ![json_path].tasks = Put(@, task, Str(output_path))]
         ELSE dd


---------------------------------------------------------------------------
(* bin/call_download.py with lib/downloader5.py and lib/utilities1.py *)

(* What the extractor and the network do is the input of a download:      *)
(*   ex  = "ok"           extract_info returns the metadata                *)
(*         "no_uploader"  it returns metadata whose uploader is null, and  *)
(*                        create_original_filename raises on it            *)
(*         "fail"         extract_info raises                              *)
(*   res = "ok"           ydl.download writes the file                     *)
(*         "part"         it raises and leaves the .part file              *)
(*         "fail"         it raises and leaves nothing                     *)
Extractions == {"ok", "no_uploader", "fail"}
Fetches == {"ok", "part", "fail"}

(* extract_metadata: the index record it appends (append_raw).             *)
RawRecord(u, metadata_path) ==
    [url |-> u, metadata_file |-> metadata_path, id |-> IdOf(u),
     shortcode |-> IdOf(u)]
(* extract_metadata: the extractor's info_dict, dumped at metadata_path.   *)
RAW_KEYS == {"id", "title", "uploader", "upload_date", "ext", "formats",
             "webpage_url", "display_id"}
RawDocument(u) == Doc(NoUrl, IdOf(u), FALSE, <<>>, RAW_KEYS)

(* create_original_filename: the stem of the output file name.             *)
OutputStem(u, ex) == IF ex = "ok" THEN UPLOADER_DATE(u) ELSE UNKNOWN

(* The counters unique_output_path needs must be within the model.         *)
CanDownload(u, ex) ==
    /\ ex # "fail" => HasFree(DocCounters(docs, IdOf(u)))
    /\ ex # "no_uploader" => HasFree(MediaCounters(files, OutputStem(u, ex)))

(* main: mask_metadata (extract_metadata), create_original_filename,       *)
(* download_video, store_params_as_json, write_masked_metadata_with_tasks, *)
(* each failure caught and the chain continued.  When the extraction       *)
(* failed, write_masked_metadata_with_tasks rewrites the sidecar in the    *)
(* output directory (and an index.jsonl there that nothing reads).  main   *)
(* creates the download directory; extract_metadata creates metadata_dir   *)
(* before it calls the extractor, and dumps the raw capture under          *)
(* metadata_dir/raw after the index record is appended.                    *)
call_download(u, ex, res) ==
    LET extracted == ex # "fail"
        named == ex # "no_uploader"
        metadata_path ==
            IF extracted
            THEN <<IdOf(u), unique_output_path(DocCounters(docs, IdOf(u)))>>
            ELSE NoPath
        ix1 == IF extracted THEN Append(index, RawRecord(u, metadata_path))
               ELSE index
        dd1 == IF extracted THEN [docs EXCEPT ![metadata_path] = RawDocument(u)]
               ELSE docs
        stem == OutputStem(u, ex)
        original_filename ==
            IF named
            THEN <<stem, unique_output_path(MediaCounters(files, stem)), "">>
            ELSE NoPath
        ff1 == IF named /\ res = "ok" THEN files \cup {original_filename}
               ELSE files
        pp1 == IF named /\ res = "ok" THEN parts \ {original_filename}
               ELSE IF named /\ res = "part" THEN parts \cup {original_filename}
               ELSE parts
        sc1 == IF named
               THEN {sc \in sidecars : sc[1] # original_filename}
                        \cup {<<original_filename, u>>}
               ELSE sidecars
        written ==
            IF extracted
            THEN write_masked_metadata_with_tasks(
                     ix1, dd1, METADATA_DIR, metadata_path, u, IdOf(u),
                     original_filename, registry)
            ELSE [docs |-> dd1, index |-> ix1]
        rw1 == IF extracted THEN raw \cup {IdOf(u)} ELSE raw
        ds1 == dirs \cup {OUTPUT_DIR, METADATA_DIR}
                   \cup (IF extracted THEN {RAW_DIR} ELSE {})
    IN  [index |-> written.index, docs |-> written.docs, files |-> ff1,
         parts |-> pp1, sidecars |-> sc1, raw |-> rw1, dirs |-> ds1,
         fetched |-> named /\ res = "ok"]

---------------------------------------------------------------------------
(* bin/cleanup_failed_url.py *)

(* The names of the files and the tokens looked for in them.  The names    *)
(* are                                                                     *)
(*   metadata/raw/<id>.json.gz            raw capture, named by the id     *)
(*   <uploader>_<date>[_n].<ext>.part     partial download                 *)
(*   <uploader>_<date>[_n].json           sidecar of a download            *)
(*   metadata/<id>[_n].json               document                         *)
(* and a token is one of                                                   *)
(*   ids        an id, a shortcode or the last segment of the URL          *)
(*   uploaders  the uploader of a document, given by the stem it leads to  *)
(*   stems      the name of a sidecar without its extension, <<stem, n>>   *)
(* The name of a document without its extension is a token too, and no     *)
(* name of a partial download contains the id it is made of.               *)
NoTokens == [ids |-> {}, uploaders |-> {}, stems |-> {}]
Join(s, t) ==
    [ids |-> s.ids \cup t.ids, uploaders |-> s.uploaders \cup t.uploaders,
     stems |-> s.stems \cup t.stems]

(* slug_from_url: the last segment of the path of the URL.  For "u1" it is *)
(* the id of the video (.../reel/<id>/), for the other URLs it is not      *)
(* (.../watch?v=<id>).                                                     *)
slug_from_url(u) == IF u = "u1" THEN IdOf(u) ELSE "watch"

(* token in p.name, line 241: the name of a raw capture.                   *)
RawNameHas(r, tokens) == r \in tokens.ids
(* token in lowered_name, line 186: the name of a partial download.        *)
PartNameHas(q, tokens) ==
    \/ q[1] \in tokens.uploaders
    \/ \E t \in tokens.stems : q[1] = t[1] /\ (t[2] = 0 \/ q[2] = t[2])

(* remove_matching_index_lines: the lines kept and the records removed.    *)
(* A cleanup that drops the record a lookup would take, and no other.      *)
remove_matching_index_lines_Last(ix, u) ==
    LET hits == {k \in DOMAIN ix : ix[k].url = u}
        last == CHOOSE k \in hits : \A j \in hits : j <= k
    IN  IF hits = {} THEN [kept |-> ix, removed_records |-> <<>>]
        ELSE [kept |-> SubSeq(ix, 1, last - 1) \o SubSeq(ix, last + 1, Len(ix)),
              removed_records |-> <<ix[last]>>]
remove_matching_index_lines(ix, u) ==
    [kept |-> SelectSeq(ix, LAMBDA r : r.url # u),
     removed_records |-> SelectSeq(ix, LAMBDA r : r.url = u)]

(* find_metadata_files_for_url: the documents that parse and have the url. *)
(* A cleanup that scans nothing: it removes the files the index names.     *)
find_metadata_files_for_url_Unscanned(dd, u) == {}
find_metadata_files_for_url(dd, u) ==
    {f \in DocPaths : IsDoc(dd[f]) /\ dd[f].url = u}

(* collect_tokens_from_records on documents: of token_fields a Document    *)
(* has id and uploader.                                                    *)
collect_tokens_from_records(dd, found) ==
    [ids |-> {dd[f].id : f \in found} \ {NoId},
     uploaders |-> {UPLOADER_DATE(dd[f].url) : f \in {g \in found : "uploader" \in dd[g].keys}},
     stems |-> {}]

(* main, lines 231-235: id and shortcode of the removed index records.     *)
RecordTokens(records) ==
    [ids |-> ({records[k].id : k \in DOMAIN records}
                 \cup {records[k].shortcode : k \in DOMAIN records}) \ {NoUrl},
     uploaders |-> {}, stems |-> {}]

(* find_output_json_files_for_url: the *.json files below output_dir that  *)
(* parse and have the url: the sidecars, and the documents when output_dir *)
(* is a directory above the metadata directory.                            *)
ROOT_DIR == "."
OutputDirs == {OUTPUT_DIR, ROOT_DIR, NoDir}
find_output_json_files_for_url(output_dir, ds, dd, sc, u) ==
    [sidecars |-> IF output_dir = ROOT_DIR \/ output_dir \in ds
                  THEN {x \in sc : x[2] = u} ELSE {},
     docs |-> IF output_dir = ROOT_DIR THEN find_metadata_files_for_url(dd, u)
              ELSE {}]

(* collect_partial_candidates: the files below output_dir that end in a    *)
(* partial suffix and whose name has a token.                              *)
(* A search that takes every file with a partial suffix.                   *)
collect_partial_candidates_All(pp, tokens) == pp
collect_partial_candidates(pp, tokens) == {q \in pp : PartNameHas(q, tokens)}

(* remove_paths: the paths that exist and, unless --dry-run, whose unlink  *)
(* did not raise.                                                          *)
remove_paths(paths, existing, dry, failing) ==
    {x \in paths \cap existing : dry \/ x \notin failing}

(* What goes wrong in a run: the rewrite of index.jsonl raises, and the    *)
(* unlink of the files named raises.                                       *)
NoFault == [index |-> FALSE, docs |-> {}, raw |-> {}, parts |-> {}, sidecars |-> {}]
NoReport ==
    [index |-> 0, metadata |-> {}, raw |-> {}, json_docs |-> {},
     json_sidecars |-> {}, partials |-> {}]
Existing(dd) == {f \in DocPaths : dd[f] # NoDoc}
(* remove_paths, line 167: path.unlink() of the document files.            *)
(* A run that reports the document files and leaves them where they are.   *)
Unlink_Kept(dd, gone) == dd
Unlink(dd, gone) == [f \in DocPaths |-> IF f \in gone THEN NoDoc ELSE dd[f]]

(* remove_paths, lines 166-170: the paths whose unlink raised.             *)
Raised(paths, existing, dry, failing) ==
    IF dry THEN {} ELSE paths \cap existing \cap failing
NoneRaised == [docs |-> {}, raw |-> {}, parts |-> {}, sidecars |-> {}]

(* main: fs is the file system (index, docs, raw, parts, sidecars, dirs);  *)
(* the result is the file system left, what was printed (report), the      *)
(* paths whose unlink raised (failed) and whether the run ended in a       *)
(* traceback.  The OSError of the rewrite at lines 86-88 is caught         *)
(* nowhere.                                                                *)
cleanup(fs, u, dry, skip_partials, output_dir, fault) ==
    LET ds1 == fs.dirs \cup {METADATA_DIR}
        matched == remove_matching_index_lines(fs.index, u)
        rewrite == matched.removed_records # <<>> /\ ~dry
        found == find_metadata_files_for_url(fs.docs, u)
        named == {matched.removed_records[k].metadata_file :
                     k \in DOMAIN matched.removed_records}
        removed_metadata_files ==
            remove_paths(found \cup named, Existing(fs.docs), dry, fault.docs)
        dd1 == IF dry THEN fs.docs ELSE Unlink(fs.docs, removed_metadata_files)
        raw_tokens ==
            Join([ids |-> {slug_from_url(u)}, uploaders |-> {}, stems |-> {}],
                 Join(collect_tokens_from_records(fs.docs, found),
                      RecordTokens(matched.removed_records)))
        raw_candidates == {r \in fs.raw : RawNameHas(r, raw_tokens)}
        removed_raw_files == remove_paths(raw_candidates, fs.raw, dry, fault.raw)
        searched == ~skip_partials /\ output_dir # NoDir
        json == IF searched
                THEN find_output_json_files_for_url(output_dir, ds1, dd1, fs.sidecars, u)
                ELSE [sidecars |-> {}, docs |-> {}]
        partial_tokens ==
            Join(raw_tokens,
                 [ids |-> {}, uploaders |-> {},
                  stems |-> {<<x[1][1], x[1][2]>> : x \in json.sidecars}])
        partial_candidates ==
            IF searched /\ (output_dir = ROOT_DIR \/ output_dir \in ds1)
            THEN collect_partial_candidates(fs.parts, partial_tokens) ELSE {}
        removed_partials ==
            remove_paths(partial_candidates, fs.parts, dry, fault.parts)
        removed_sidecars ==
            remove_paths(json.sidecars, fs.sidecars, dry, fault.sidecars)
        removed_json_docs ==
            remove_paths(json.docs, Existing(dd1), dry, fault.docs)
        dd2 == IF dry THEN dd1 ELSE Unlink(dd1, removed_json_docs)
        failed ==
            [docs |-> Raised(found \cup named, Existing(fs.docs), dry, fault.docs)
                         \cup Raised(json.docs, Existing(dd1), dry, fault.docs),
             raw |-> Raised(raw_candidates, fs.raw, dry, fault.raw),
             parts |-> Raised(partial_candidates, fs.parts, dry, fault.parts),
             sidecars |-> Raised(json.sidecars, fs.sidecars, dry, fault.sidecars)]
    IN  IF rewrite /\ fault.index
        THEN [fs |-> [fs EXCEPT !.dirs = ds1], report |-> NoReport,
              failed |-> NoneRaised,
              records |-> matched.removed_records, crashed |-> TRUE]
        ELSE [fs |-> [index |-> IF rewrite THEN matched.kept ELSE fs.index,
                      docs |-> dd2,
                      raw |-> IF dry THEN fs.raw ELSE fs.raw \ removed_raw_files,
                      parts |-> IF dry THEN fs.parts
                                ELSE fs.parts \ removed_partials,
                      sidecars |-> IF dry THEN fs.sidecars
                                   ELSE fs.sidecars \ removed_sidecars,
                      dirs |-> ds1],
              report |-> [index |-> Len(matched.removed_records),
                          metadata |-> removed_metadata_files,
                          raw |-> removed_raw_files,
                          json_docs |-> removed_json_docs,
                          json_sidecars |-> removed_sidecars,
                          partials |-> removed_partials],
              failed |-> failed,
              records |-> matched.removed_records, crashed |-> FALSE]

---------------------------------------------------------------------------
(* Workers of the other tasks *)

Watermarked(p) == <<p[1], p[2], "_watermarked">>
(* bin/call_watermark.py: needs the input file and its sidecar JSON.       *)
CanWatermark(input) ==
    /\ input \in files
    /\ \E sc \in sidecars : sc[1] = input

(* The scripts of the remaining tasks: they report an output path or fail, *)
(* and leave the documents and the index alone.                            *)
ExternalOutput(task, input) == <<input[1], input[2], task>>


---------------------------------------------------------------------------
(* bin/call_router.py *)

timeout_seconds == 90
poll_interval == 3

(* Python truth of a task entry: None and false are falsy.                 *)
Truthy(v) == v = True \/ IsStr(v)

(* perform_download_done, lines 127-131 and 137-141.                       *)
perform_download_done(data) ==
    IF data # None THEN Get(DefaultTasks(data), PERFORM_DOWNLOAD) ELSE None

(* if not found_file or not perform_download_done, line 133.               *)
(* A router that downloads only when a document says it is to be done.     *)
NeedsDownload_Pending(file, data) ==
    file # NoPath /\ ~Truthy(perform_download_done(data))
NeedsDownload(file, data) ==
    file = NoPath \/ ~Truthy(perform_download_done(data))

NoDownload == [invoked |-> FALSE, input |-> NoUrl, fetched |-> FALSE]
NoCall == [op |-> "none"]
(* No process is writing the index record of the URL.                     *)
Idle == [pc |-> "idle", records |-> <<>>]

(* main, lines 108-131: the arguments and the first lookup.                *)
RouterStart(u, d) ==
    /\ pc \in {"idle", "done"}
    /\ runs < MaxRuns
    /\ registry # Missing
    /\ LET found == find_url_json(u, index, docs)
       IN  /\ found_file' = found.file
           /\ found_data' = found.data
           /\ pc' = IF NeedsDownload(found.file, found.data)
                    THEN "download" ELSE "resolve"
           /\ start' = [docs |-> docs, index |-> index, data |-> found.data,
                        files |-> files, prev |-> outcome, prev_ext |-> ext]
    /\ url' = u
    /\ dry_run' = d
    /\ to_process' = NoPath
    /\ i' = 1
    /\ elapsed' = 0
    /\ invoked' = <<>>
    /\ dl' = NoDownload
    /\ outcome' = "running"
    /\ runs' = runs + 1
    /\ UNCHANGED <<call, writers>>
    /\ ext' = FALSE
    /\ dirs' = dirs \cup {METADATA_DIR}
    /\ UNCHANGED <<registry, index, docs, files, parts, sidecars, raw>>

(* main, lines 133-141: run_my_existing_downloader, then the lookup again. *)
RouterDownload(ex, res) ==
    /\ pc = "download"
    /\ CanDownload(url, ex)
    /\ ex = "no_uploader" => res = "fail"
    /\ LET w == call_download(url, ex, res)
           found == find_url_json(url, w.index, w.docs)
       IN  /\ index' = w.index
           /\ docs' = w.docs
           /\ files' = w.files
           /\ parts' = w.parts
           /\ sidecars' = w.sidecars
           /\ raw' = w.raw
           /\ dirs' = w.dirs
           /\ found_file' = found.file
           /\ found_data' = found.data
           /\ dl' = [invoked |-> TRUE, input |-> url, fetched |-> w.fetched]
    /\ pc' = "resolve"
    /\ UNCHANGED <<registry, writers, url, dry_run, to_process, i, elapsed,
                   invoked, outcome, start, runs, ext, call>>

(* A router that goes on to the tasks whatever the download entry holds.   *)
RouterResolve_Proceeds ==
    /\ pc = "resolve"
    /\ LET done == perform_download_done(found_data)
       IN  /\ pc' = "tasks"
           /\ to_process' = IF IsStr(done) THEN done.s ELSE NoPath
    /\ UNCHANGED <<fsvars, writers, url, dry_run, found_file, found_data, i, elapsed,
                   invoked, dl, outcome, start, runs, ext, call>>

(* main, lines 143-161: no metadata, or no recorded output path: return.   *)
RouterResolve ==
    /\ pc = "resolve"
    /\ LET done == perform_download_done(found_data)
       IN  IF found_data = None
           THEN /\ pc' = "done"
                /\ outcome' = "NoMetadata"
                /\ UNCHANGED to_process
           ELSE IF IsStr(done)
           THEN /\ pc' = "wait"
                /\ to_process' = done.s
                /\ UNCHANGED outcome
           ELSE /\ pc' = "done"
                /\ outcome' = "DownloadIncomplete"
                /\ UNCHANGED to_process
    /\ UNCHANGED <<fsvars, writers, url, dry_run, found_file, found_data, i, elapsed,
                   invoked, dl, start, runs, ext, call>>

(* name.startswith(base_name) and name.endswith(".part"): the .part files  *)
(* whose name starts with the stem of to_process.  "x" is a prefix of      *)
(* "x_1.mp4.part"; "x_1" is not a prefix of "x.mp4.part".                  *)
PartCandidates(p) ==
    {q \in parts : q[1] = p[1] /\ (p[2] = 0 \/ q[2] = p[2])}

(* wait_for_download_file, lines 76-93: before the loop.                   *)
(* A first check that gives up on an absent file at once.                  *)
RouterWait_NoPoll ==
    /\ pc = "wait"
    /\ IF to_process \in files
       THEN pc' = "tasks" /\ UNCHANGED outcome
       ELSE pc' = "done" /\ outcome' = "InputMissing"
    /\ UNCHANGED <<fsvars, writers, url, dry_run, found_file, found_data, to_process,
                   i, elapsed, invoked, dl, start, runs, ext, call>>
RouterWait ==
    /\ pc = "wait"
    /\ IF to_process \in files
       THEN pc' = "tasks" /\ UNCHANGED outcome
       ELSE IF PartCandidates(to_process) = {}
       THEN pc' = "done" /\ outcome' = "InputMissing"
       ELSE pc' = "poll" /\ UNCHANGED outcome
    /\ UNCHANGED <<fsvars, writers, url, dry_run, found_file, found_data, to_process,
                   i, elapsed, invoked, dl, start, runs, ext, call>>

(* wait_for_download_file, lines 94-104: one turn of the loop; the clock   *)
(* advances by the sleep.                                                  *)
(* A loop that sleeps until the file is there, with no deadline.           *)
RouterPoll_NoDeadline ==
    /\ pc = "poll"
    /\ IF to_process \in files
       THEN pc' = "tasks" /\ UNCHANGED elapsed
       ELSE /\ elapsed' = IF elapsed < timeout_seconds
                          THEN elapsed + poll_interval ELSE elapsed
            /\ UNCHANGED pc
    /\ UNCHANGED <<fsvars, writers, url, dry_run, found_file, found_data, to_process,
                   i, outcome, invoked, dl, start, runs, ext, call>>
RouterPoll ==
    /\ pc = "poll"
    /\ IF elapsed < timeout_seconds
       THEN IF to_process \in files
            THEN pc' = "tasks" /\ UNCHANGED <<elapsed, outcome>>
            ELSE /\ elapsed' = elapsed + poll_interval
                 /\ UNCHANGED <<pc, outcome>>
       ELSE /\ pc' = "done"
            /\ outcome' = "DownloadPending"
            /\ UNCHANGED elapsed
    /\ UNCHANGED <<fsvars, writers, url, dry_run, found_file, found_data, to_process,
                   i, invoked, dl, start, runs, ext, call>>


(* execute_tasks, lines 34-54: the entry the loop is at.                   *)
task_config == DefaultTasks(found_data)
CurrentTask == task_config[i][1]
CurrentStatus == task_config[i][2]
(* A router that hands the URL to every script.                            *)
TaskInput_Url(task) == [url |-> url]
(* line 42: the URL for the download, the file path for all others.        *)
TaskInput(task) ==
    IF task = PERFORM_DOWNLOAD THEN [url |-> url] ELSE [path |-> to_process]
(* A router that runs the script of every task whose entry is truthy.      *)
Dispatches_Truthy(task, status, d) == HasScript(task) /\ Truthy(status) /\ ~d
(* A router that runs the script of every task whose entry is not a path.  *)
Dispatches_NotStr(task, status, d) == HasScript(task) /\ ~IsStr(status) /\ ~d
(* lines 37 and 44-50: the script is run.                                  *)
Dispatches(task, status, d) == HasScript(task) /\ status = True /\ ~d

NextEntry ==
    IF i < Len(task_config)
    THEN i' = i + 1 /\ UNCHANGED <<pc, outcome>>
    ELSE i' = i /\ pc' = "done" /\ outcome' = "Done"

(* A router that stops the run when a script fails (check=True).           *)
AfterTask_Raises(ok) ==
    IF ok THEN NextEntry
    ELSE i' = i /\ pc' = "done" /\ outcome' = "Error"
(* line 50: the exit status of the script is not looked at.                *)
AfterTask(ok) == NextEntry

(* execute_tasks, line 50: subprocess.run of the task's script; its exit   *)
(* status and its output are not looked at.                                *)
RunTask(ex, res) ==
    /\ pc = "tasks"
    /\ i \in DOMAIN task_config
    /\ Dispatches(CurrentTask, CurrentStatus, dry_run)
    /\ IF CurrentTask = PERFORM_DOWNLOAD
       THEN /\ CanDownload(url, ex)
            /\ ex = "no_uploader" => res = "fail"
            /\ LET w == call_download(url, ex, res)
               IN  /\ index' = w.index
                   /\ docs' = w.docs
                   /\ files' = w.files
                   /\ parts' = w.parts
                   /\ sidecars' = w.sidecars
                   /\ raw' = w.raw
                   /\ dirs' = w.dirs
                   /\ invoked' = Append(invoked,
                          [task |-> CurrentTask, input |-> TaskInput(CurrentTask),
                           ok |-> w.fetched, out |-> NoPath])
                   /\ AfterTask(w.fetched)
       ELSE IF CurrentTask = APPLY_WATERMARK
       THEN /\ ex = "ok"
            /\ res \in {"ok", "fail"}
            /\ LET ok == res = "ok" /\ CanWatermark(to_process)
               IN  /\ files' = IF ok THEN files \cup {Watermarked(to_process)}
                               ELSE files
                   /\ invoked' = Append(invoked,
                          [task |-> CurrentTask, input |-> TaskInput(CurrentTask),
                           ok |-> ok,
                           out |-> IF ok THEN Watermarked(to_process) ELSE NoPath])
                   /\ AfterTask(ok)
            /\ UNCHANGED <<index, docs, parts, sidecars, raw, dirs>>
       ELSE /\ ex = "ok"
            /\ res \in {"ok", "fail"}
            /\ invoked' = Append(invoked,
                   [task |-> CurrentTask, input |-> TaskInput(CurrentTask),
                    ok |-> res = "ok",
                    out |-> IF res = "ok"
                            THEN ExternalOutput(CurrentTask, to_process)
                            ELSE NoPath])
            /\ AfterTask(res = "ok")
            /\ UNCHANGED <<index, docs, files, parts, sidecars, raw, dirs>>
    /\ UNCHANGED <<registry, writers, url, dry_run, found_file, found_data, to_process,
                   elapsed, dl, start, runs, ext, call>>

(* execute_tasks, lines 37-39 and 47-54: the entry is only logged.         *)
SkipTask ==
    /\ pc = "tasks"
    /\ i \in DOMAIN task_config
    /\ ~Dispatches(CurrentTask, CurrentStatus, dry_run)
    /\ NextEntry
    /\ UNCHANGED <<fsvars, writers, url, dry_run, found_file, found_data, to_process,
                   elapsed, invoked, dl, start, runs, ext, call>>

---------------------------------------------------------------------------
(* The environment *)

(* A downloader still at work renames a .part file to its final name.      *)
FinalizeDownload(q) ==
    /\ q \in parts
    /\ files' = files \cup {q}
    /\ parts' = parts \ {q}
    /\ ext' = TRUE
    /\ UNCHANGED <<registry, index, docs, sidecars, raw, dirs, procvars,
                   invoked, dl, outcome, start, runs, call>>

(* Between two runs, update_task_output_path is called with the output a   *)
(* worker of the last run reported (the router itself never calls it).     *)
RecordOutput(k) ==
    /\ pc = "done"
    /\ k \in DOMAIN invoked
    /\ invoked[k].ok
    /\ found_file # NoPath
    /\ docs' = update_task_output_path(docs, found_file, invoked[k].task,
                                       invoked[k].out)
    /\ docs' # docs
    /\ ext' = TRUE
    /\ UNCHANGED <<registry, index, files, parts, sidecars, raw, dirs, procvars,
                   invoked, dl, outcome, start, runs, call>>

---------------------------------------------------------------------------
(* Specification of the pipeline *)

(* conf/default_tasks.json: any of the first three tasks, each true or     *)
(* false, in the declared order.                                           *)
Registries ==
    {SelectSeq(<<<<PERFORM_DOWNLOAD, a>>, <<APPLY_WATERMARK, b>>, <<MAKE_CLIPS, c>>>>,
               LAMBDA e : e[2] # None) :
        a \in {True, False, None}, b \in {True, False, None}, c \in {True, False, None}}

Init ==
    /\ registry \in Registries
    /\ index = <<>>
    /\ docs = [f \in DocPaths |-> NoDoc]
    /\ files = {}
    /\ parts = {}
    /\ sidecars = {}
    /\ raw = {}
    /\ dirs = {}
    /\ pc = "idle"
    /\ url = NoUrl
    /\ dry_run = FALSE
    /\ found_file = NoPath
    /\ found_data = None
    /\ to_process = NoPath
    /\ i = 1
    /\ elapsed = 0
    /\ writers = [u \in URLS |-> Idle]
    /\ invoked = <<>>
    /\ dl = NoDownload
    /\ outcome = "none"
    /\ start = [docs |-> docs, index |-> index, data |-> None, files |-> files,
                prev |-> "none", prev_ext |-> FALSE]
    /\ runs = 0
    /\ ext = FALSE
    /\ call = NoCall

Next ==
    \/ \E u \in RunUrls, d \in BOOLEAN : RouterStart(u, d)
    \/ \E ex \in Extractions, res \in Fetches : RouterDownload(ex, res)
    \/ RouterResolve
    \/ RouterWait
    \/ RouterPoll
    \/ \E ex \in Extractions, res \in Fetches : RunTask(ex, res)
    \/ SkipTask
    \/ \E q \in MediaPaths : FinalizeDownload(q)
    \/ \E k \in 1..Len(TASK_DISPATCH) : RecordOutput(k)

Spec == Init /\ [][Next]_vars


---------------------------------------------------------------------------
(* The document store on its own: lib/tasks_lib.py called directly *)

(* The document file the calls work on, the output paths they report      *)
(* (NoPath: the empty output path) and the tasks they name, which are the  *)
(* tasks of the registries.                                                *)
StorePaths == {<<IdOf(u), 0>> : u \in RunUrls}
StoreOutputs == {<<u, c, "">> : u \in RunUrls, c \in Counters} \cup {NoPath}
StoreTasks == {PERFORM_DOWNLOAD, APPLY_WATERMARK, MAKE_CLIPS}

(* write_masked_metadata_with_tasks(params) with params["metadata_path"],  *)
(* params["url"] and params["to_process"].                                 *)
WriteMaskedMetadata(metadata_path, u, output_path) ==
    LET written == write_masked_metadata_with_tasks(
                       index, docs, METADATA_DIR, metadata_path, u, IdOf(u),
                       output_path, registry)
    IN  /\ docs' = written.docs
        /\ index' = written.index
        /\ call' = [op |-> "write", file |-> metadata_path,
                    prior |-> IF IsDoc(docs[metadata_path])
                              THEN docs[metadata_path].keys ELSE {}]
        /\ dirs' = dirs \cup {METADATA_DIR}
        /\ UNCHANGED <<registry, files, parts, sidecars, raw>>
        /\ UNCHANGED procvars
        /\ UNCHANGED <<invoked, dl, outcome, start, runs, ext>>

(* update_task_output_path(metadata_path, task, output_path).              *)
UpdateTaskOutputPath(metadata_path, task, output_path) ==
    /\ docs' = update_task_output_path(docs, metadata_path, task, output_path)
    /\ call' = [op |-> "update", file |-> metadata_path, task |-> task,
                output_path |-> output_path]
    /\ UNCHANGED <<registry, index, files, parts, sidecars, raw, dirs>>
    /\ UNCHANGED procvars
    /\ UNCHANGED <<invoked, dl, outcome, start, runs, ext>>

(* extend_metadata_with_task_output(params).                               *)
ExtendMetadataWithTaskOutput(json_path, task, output_path) ==
    /\ docs' = extend_metadata_with_task_output(docs, json_path, task, output_path)
    /\ call' = [op |-> "extend", file |-> json_path, task |-> task,
                output_path |-> output_path]
    /\ UNCHANGED <<registry, index, files, parts, sidecars, raw, dirs>>
    /\ UNCHANGED procvars
    /\ UNCHANGED <<invoked, dl, outcome, start, runs, ext>>

(* extract_metadata with no metadata_path in params, lines 120-124 and     *)
(* 151-155: the extractor's info_dict is dumped at a path that is free.    *)
DumpInfoDict(metadata_path, u) ==
    /\ docs[metadata_path] = NoDoc
    /\ docs' = [docs EXCEPT ![metadata_path] = RawDocument(u)]
    /\ call' = [op |-> "dump", file |-> metadata_path]
    /\ dirs' = dirs \cup {METADATA_DIR}
    /\ UNCHANGED <<registry, index, files, parts, sidecars, raw>>
    /\ UNCHANGED procvars
    /\ UNCHANGED <<invoked, dl, outcome, start, runs, ext>>

NextStore ==
    \/ \E f \in StorePaths, u \in RunUrls, p \in StoreOutputs :
          WriteMaskedMetadata(f, u, p)
    \/ \E f \in StorePaths, task \in StoreTasks, p \in StoreOutputs :
          UpdateTaskOutputPath(f, task, p)
    \/ \E f \in StorePaths, task \in StoreTasks, p \in StoreOutputs :
          ExtendMetadataWithTaskOutput(f, task, p)
    \/ \E f \in StorePaths, u \in RunUrls : DumpInfoDict(f, u)

SpecStore == Init /\ [][NextStore]_vars


---------------------------------------------------------------------------
(* The URL index on its own: the functions that read and write index.jsonl *)

(* The document files of a URL.                                            *)
PathsOf(u) == {<<IdOf(u), n>> : n \in Counters}
Matching(ix, u) == {k \in DOMAIN ix : ix[k].url = u}

(* extract_metadata, lines 126-135: the record is appended to index.jsonl  *)
(* before the document is written at line 153; a failure in between (the   *)
(* raw dump of lines 137-149) leaves the record without its document.      *)
AppendIndexRecord(u, metadata_path) ==
    /\ Len(index) < MaxRecords
    /\ index' = Append(index, RawRecord(u, metadata_path))
    /\ call' = [op |-> "append", url |-> u, file |-> metadata_path]
    /\ dirs' = dirs \cup {METADATA_DIR}
    /\ UNCHANGED <<registry, docs, files, parts, sidecars, raw>>
    /\ UNCHANGED procvars
    /\ UNCHANGED <<invoked, dl, outcome, start, runs, ext>>

(* write_masked_metadata_with_tasks(params) with params["metadata_path"]   *)
(* and params["url"]: the document is written and the index upserted.      *)
(* metadata_dir is the directory part of the path as the caller spelled    *)
(* it: NoDir for a bare file name used from inside the directory.          *)
CreateOrOverwrite(metadata_dir, metadata_path, u) ==
    LET written == write_masked_metadata_with_tasks(
                       index, docs, metadata_dir, metadata_path, u, IdOf(u),
                       NoPath, registry)
    IN  /\ Len(written.index) <= MaxRecords
        /\ docs' = written.docs
        /\ index' = written.index
        /\ call' = [op |-> "upsert", url |-> u, file |-> metadata_path,
                    dir |-> metadata_dir,
                    held |-> Cardinality(Matching(index, u))]
        /\ dirs' = dirs \cup {METADATA_DIR}
        /\ UNCHANGED <<registry, files, parts, sidecars, raw>>
        /\ UNCHANGED procvars
        /\ UNCHANGED <<invoked, dl, outcome, start, runs, ext>>

(* The same call when the process dies in upsert_metadata_index, lines     *)
(* 245-247: open(index_path, "w") has emptied the file and the first       *)
(* written records of the new contents are on disk.                        *)
CreateOrOverwriteCrash(metadata_path, u, written_records) ==
    LET written == write_masked_metadata_with_tasks(
                       index, docs, METADATA_DIR, metadata_path, u, IdOf(u),
                       NoPath, registry)
    IN  /\ Len(written.index) <= MaxRecords
        /\ written_records < Len(written.index)
        /\ docs' = written.docs
        /\ index' = SubSeq(written.index, 1, written_records)
        /\ call' = [op |-> "crash", url |-> u, file |-> metadata_path]
        /\ dirs' = dirs \cup {METADATA_DIR}
        /\ UNCHANGED <<registry, files, parts, sidecars, raw>>
        /\ UNCHANGED procvars
        /\ UNCHANGED <<invoked, dl, outcome, start, runs, ext>>

(* find_url_json(url): the call and what it returned.                      *)
Lookup(u) ==
    /\ call' = [op |-> "lookup", url |-> u,
                found |-> find_url_json(u, index, docs)]
    /\ UNCHANGED fsvars
    /\ UNCHANGED procvars
    /\ UNCHANGED <<invoked, dl, outcome, start, runs, ext>>

InitIndex == Init /\ registry = <<>>

NextIndex ==
    \/ \E u \in RunUrls : \E f \in PathsOf(u) : AppendIndexRecord(u, f)
    \/ \E u \in URLS : \E f \in PathsOf(u) : \E d \in {METADATA_DIR, NoDir} :
          CreateOrOverwrite(d, f, u)
    \/ \E u \in RunUrls : \E f \in PathsOf(u) : \E n \in 0..MaxRecords :
          CreateOrOverwriteCrash(f, u, n)
    \/ \E u \in URLS : Lookup(u)

SpecIndex == InitIndex /\ [][NextIndex]_vars


---------------------------------------------------------------------------
(* One document file written for several URLs, and read when it is broken *)

(* A writer of the document (json.dump into open(path, "w"), lines 480-481 *)
(* and 525-526 of lib/tasks_lib.py) is killed before the text is complete: *)
(* the file is left with content that does not parse.                      *)
TruncateDocument(metadata_path) ==
    /\ IsDoc(docs[metadata_path])
    /\ docs' = [docs EXCEPT ![metadata_path] = Corrupt]
    /\ call' = [op |-> "truncate", file |-> metadata_path]
    /\ UNCHANGED <<registry, index, files, parts, sidecars, raw, dirs>>
    /\ UNCHANGED procvars
    /\ UNCHANGED <<invoked, dl, outcome, start, runs, ext>>

(* conf/default_tasks.json with the download and the watermark pending.    *)
InitPending ==
    Init /\ registry = <<<<PERFORM_DOWNLOAD, True>>, <<APPLY_WATERMARK, True>>>>

NextDocument ==
    \/ \E f \in StorePaths, u \in URLS, p \in StoreOutputs :
          WriteMaskedMetadata(f, u, p)
    \/ \E f \in StorePaths, task \in StoreTasks, p \in StoreOutputs :
          UpdateTaskOutputPath(f, task, p)
    \/ \E f \in StorePaths : TruncateDocument(f)
    \/ \E u \in URLS : Lookup(u)

SpecDocument == InitPending /\ [][NextDocument]_vars


---------------------------------------------------------------------------
(* The router and the store when the files of conf/ are missing.           *)

(* main, lines 108-117 and 175-177: load_config raises FileNotFoundError,  *)
(* "except Exception" logs it and main returns.                            *)
RouterNoConfig(u, d) ==
    /\ pc \in {"idle", "done"}
    /\ runs < MaxRuns
    /\ registry = Missing
    /\ start' = [docs |-> docs, index |-> index, data |-> None,
                 files |-> files, prev |-> outcome, prev_ext |-> ext]
    /\ url' = u
    /\ dry_run' = d
    /\ found_file' = NoPath
    /\ found_data' = None
    /\ to_process' = NoPath
    /\ i' = 1
    /\ elapsed' = 0
    /\ invoked' = <<>>
    /\ dl' = NoDownload
    /\ pc' = "done"
    /\ outcome' = "UnexpectedError"
    /\ runs' = runs + 1
    /\ ext' = FALSE
    /\ UNCHANGED <<call, writers>>
    /\ UNCHANGED fsvars

(* The exit status of call_router.py: sys.exit(1) at line 113 when the url *)
(* is missing from the command line, and 0 after every return of main.     *)
ExitStatus(o) == IF o = "Usage" THEN 1 ELSE 0

(* The files of conf/ are removed while no run is under way.               *)
RemoveConf ==
    /\ pc \in {"idle", "done"}
    /\ registry # Missing
    /\ registry' = Missing
    /\ ext' = TRUE
    /\ UNCHANGED <<index, docs, files, parts, sidecars, raw, dirs>>
    /\ UNCHANGED procvars
    /\ UNCHANGED <<invoked, dl, outcome, start, runs, call>>

NextConfig ==
    \/ Next
    \/ RemoveConf
    \/ \E u \in RunUrls, d \in BOOLEAN : RouterNoConfig(u, d)
    \/ \E f \in StorePaths, u \in RunUrls : CreateOrOverwrite(METADATA_DIR, f, u)

SpecConfig == InitPending /\ [][NextConfig]_vars


---------------------------------------------------------------------------
(* The router with a task configuration that is edited between its runs,   *)
(* and documents that are written again after it: conf/default_tasks.json  *)
(* is read anew by every load_default_tasks.                               *)
(* The configurations written: the download and some of the other tasks,   *)
(* all to be performed.                                                    *)
EditedRegistries ==
    {reg \in Registries :
        Get(reg, PERFORM_DOWNLOAD) = True /\ \A k \in DOMAIN reg : reg[k][2] = True}
EditDefaultTasks(reg) ==
    /\ pc = "done"
    /\ reg # registry
    /\ registry' = reg
    /\ ext' = TRUE
    /\ UNCHANGED <<index, docs, files, parts, sidecars, raw, dirs>>
    /\ UNCHANGED procvars
    /\ UNCHANGED <<invoked, dl, outcome, start, runs, call>>

NextOrder ==
    \/ Next
    \/ \E reg \in EditedRegistries : EditDefaultTasks(reg)
    \/ \E u \in RunUrls, f \in StorePaths :
          pc = "done" /\ CreateOrOverwrite(METADATA_DIR, f, u)

InitOrder == Init /\ registry \in EditedRegistries
SpecOrder == InitOrder /\ [][NextOrder]_vars


---------------------------------------------------------------------------
(* The router with a scheduler that lets it run: a process that can take a *)
(* step of wait_for_download_file takes it, time.sleep returns.            *)
SpecWait ==
    InitPending /\ [][Next]_vars /\ WF_vars(RouterWait) /\ WF_vars(RouterPoll)


---------------------------------------------------------------------------
(* Processes that write the index at the same time, one for each URL.  A   *)
(* process appends the record of extract_metadata in one write, or upserts *)
(* in two steps: it reads index.jsonl and keeps the records of the other   *)
(* URLs, and later it rewrites the file from what it read.                 *)

(* extract_metadata, lines 133-135: open(index_path, "a") and one write.   *)
WriterAppend(u, metadata_path) ==
    /\ writers[u].pc \in {"idle", "done"}
    /\ Len(index) < MaxRecords
    /\ index' = Append(index, RawRecord(u, metadata_path))
    /\ writers' = [writers EXCEPT ![u] = [pc |-> "done", records |-> <<>>]]
    /\ call' = [op |-> "append", url |-> u, file |-> metadata_path]
    /\ dirs' = dirs \cup {METADATA_DIR}
    /\ UNCHANGED <<registry, docs, files, parts, sidecars, raw>>
    /\ UNCHANGED <<pc, url, dry_run, found_file, found_data, to_process, i, elapsed>>
    /\ UNCHANGED <<invoked, dl, outcome, start, runs, ext>>

(* write_masked_metadata_with_tasks up to the end of the read loop of      *)
(* upsert_metadata_index, lines 227-243: the document is written, and the  *)
(* process holds the records it will write.                                *)
WriterRead(u, metadata_path) ==
    LET written == write_masked_metadata_with_tasks(
                       index, docs, METADATA_DIR, metadata_path, u, IdOf(u),
                       NoPath, registry)
    IN  /\ writers[u].pc \in {"idle", "done"}
        /\ Len(written.index) <= MaxRecords
        /\ docs' = written.docs
        /\ writers' = [writers EXCEPT ![u] = [pc |-> "rewrite", records |-> written.index]]
        /\ call' = [op |-> "read", url |-> u, file |-> metadata_path]
        /\ dirs' = dirs \cup {METADATA_DIR}
        /\ UNCHANGED <<registry, index, files, parts, sidecars, raw>>
        /\ UNCHANGED <<pc, url, dry_run, found_file, found_data, to_process, i, elapsed>>
        /\ UNCHANGED <<invoked, dl, outcome, start, runs, ext>>

(* upsert_metadata_index, lines 245-247: open(index_path, "w") and the     *)
(* records held.                                                           *)
WriterRewrite(u) ==
    /\ writers[u].pc = "rewrite"
    /\ index' = writers[u].records
    /\ writers' = [writers EXCEPT ![u] = [pc |-> "done", records |-> <<>>]]
    /\ call' = [op |-> "rewrite", url |-> u, file |-> NoPath]
    /\ UNCHANGED <<registry, docs, files, parts, sidecars, raw, dirs>>
    /\ UNCHANGED <<pc, url, dry_run, found_file, found_data, to_process, i, elapsed>>
    /\ UNCHANGED <<invoked, dl, outcome, start, runs, ext>>

NextWriters ==
    \/ \E u \in URLS : \E f \in PathsOf(u) : WriterAppend(u, f)
    \/ \E u \in URLS : \E f \in PathsOf(u) : WriterRead(u, f)
    \/ \E u \in URLS : WriterRewrite(u)

SpecWriters == InitPending /\ [][NextWriters]_vars


---------------------------------------------------------------------------
(* Downloads and cleanups run from the command line *)

FS == [index |-> index, docs |-> docs, raw |-> raw, parts |-> parts,
       sidecars |-> sidecars, dirs |-> dirs]

(* python bin/call_download.py <url>.  The download of a URL no cleanup is *)
(* run on is one that leaves a file of every kind: a record, a document, a *)
(* raw capture, a sidecar and a partial download.                          *)
Download(u, ex, res) ==
    /\ runs < MaxCommands
    /\ CanDownload(u, ex)
    /\ u \notin RunUrls => (ex = "ok" /\ res = "part")
    /\ ex = "no_uploader" => res = "fail"
    /\ LET w == call_download(u, ex, res)
       IN  /\ index' = w.index
           /\ docs' = w.docs
           /\ files' = w.files
           /\ parts' = w.parts
           /\ sidecars' = w.sidecars
           /\ raw' = w.raw
           /\ dirs' = w.dirs
    /\ call' = [op |-> "download", url |-> u]
    /\ runs' = runs + 1
    /\ UNCHANGED registry
    /\ UNCHANGED procvars
    /\ UNCHANGED <<invoked, dl, outcome, start, ext>>

(* python bin/cleanup_failed_url.py <url> [--dry-run] [--skip-partials],   *)
(* with the output_dir conf/config.json gives and the faults of the run.   *)
CleanupFiles(u, dry, skip_partials, output_dir, fault) ==
    /\ dry => fault = NoFault
    /\ LET run == cleanup(FS, u, dry, skip_partials, output_dir, fault)
       IN  /\ index' = run.fs.index
           /\ docs' = run.fs.docs
           /\ raw' = run.fs.raw
           /\ parts' = run.fs.parts
           /\ sidecars' = run.fs.sidecars
           /\ dirs' = run.fs.dirs
           /\ call' = [op |-> "cleanup", url |-> u, dry_run |-> dry,
                       crashed |-> run.crashed, report |-> run.report,
                       failed |-> run.failed, records |-> run.records,
                       searched |-> IF skip_partials THEN NoDir ELSE output_dir,
                       at |-> runs]
    /\ UNCHANGED <<registry, files>>
    /\ UNCHANGED procvars
    /\ UNCHANGED <<invoked, dl, outcome, start, ext>>
Cleanup(u, dry, skip_partials, output_dir, fault) ==
    /\ runs < MaxCommands
    /\ CleanupFiles(u, dry, skip_partials, output_dir, fault)
    /\ runs' = runs + 1

(* The faults of one run: none, the rewrite of index.jsonl, or the unlink  *)
(* of one file of the URL: its first document, its raw capture, its first  *)
(* partial download or the sidecar of that download.                       *)
Faults ==
    {NoFault, [NoFault EXCEPT !.index = TRUE]}
        \cup {[NoFault EXCEPT !.docs = {<<IdOf(u), 0>>}] : u \in RunUrls}
        \cup {[NoFault EXCEPT !.raw = {IdOf(u)}] : u \in RunUrls}
        \cup {[NoFault EXCEPT !.parts = {<<UPLOADER_DATE(u), 0, "">>}] : u \in RunUrls}
        \cup {[NoFault EXCEPT !.sidecars = {<<<<UPLOADER_DATE(u), 0, "">>, u>>}] : u \in RunUrls}

(* extract_metadata, lines 120-124: the document path of a new download.   *)
HasNewDocPath(u) == HasFree(DocCounters(docs, IdOf(u)))
NewDocPath(u) == <<IdOf(u), unique_output_path(DocCounters(docs, IdOf(u)))>>

NextCleanup ==
    \/ \E u \in URLS, ex \in Extractions, res \in Fetches : Download(u, ex, res)
    \/ \E u \in RunUrls : HasNewDocPath(u) /\ AppendIndexRecord(u, NewDocPath(u))
    \/ \E u \in RunUrls, dry \in BOOLEAN, skip \in BOOLEAN, d \in OutputDirs, fault \in Faults :
          Cleanup(u, dry, skip, d, fault)

SpecCleanup == InitPending /\ [][NextCleanup]_vars

---------------------------------------------------------------------------
(* Cleanups of a metadata directory in which one document file was written *)
(* for several URLs                                                        *)

NextShared ==
    \/ \E f \in StorePaths, u \in URLS, p \in StoreOutputs :
          WriteMaskedMetadata(f, u, p)
    \/ \E u \in RunUrls, dry \in BOOLEAN, skip \in BOOLEAN, d \in OutputDirs, fault \in Faults :
          Cleanup(u, dry, skip, d, fault)

SpecShared == InitPending /\ [][NextShared]_vars


---------------------------------------------------------------------------
(* Cleanups run between the runs of the router *)

(* One cleanup in a behaviour.                                             *)
CleanupBetweenRuns(u, dry, skip_partials, output_dir, fault) ==
    /\ pc \in {"idle", "done"}
    /\ call.op # "cleanup"
    /\ CleanupFiles(u, dry, skip_partials, output_dir, fault)
    /\ UNCHANGED runs

NextRecover ==
    \/ Next
    \/ \E u \in RunUrls, dry \in BOOLEAN, skip \in BOOLEAN, d \in OutputDirs, fault \in Faults :
          CleanupBetweenRuns(u, dry, skip, d, fault)

SpecRecover == InitPending /\ [][NextRecover]_vars


---------------------------------------------------------------------------
(* Properties of the pipeline *)

(* The state of a task in a document (None: no such key, or no document).  *)
StatusIn(d, task) == Get(DefaultTasks(d), task)
(* What a lookup of the run's URL returns in the current state.            *)
Current == find_url_json(url, index, docs)
(* The run is past the download step of main (lines 133-141).              *)
PastDownload == pc \in {"resolve", "wait", "poll", "tasks", "done"}
(* The run is past the re-lookup and the checks of lines 143-161.          *)
PastResolve == pc \in {"wait", "poll", "tasks", "done"}
InvokedTasks == {invoked[k].task : k \in DOMAIN invoked}
(* The run follows a finished run, and the environment did nothing from    *)
(* the start of that run on.                                               *)
Rerun == start.prev = "Done" /\ ~start.prev_ext /\ ~ext

(* C1: a non-download task whose worker was invoked and succeeded with     *)
(* output path p is Completed(p) in the Document, and a second run with no *)
(* external change invokes no worker.                                      *)
C1_SuccessCompletesTask ==
    /\ \A k \in DOMAIN invoked :
          (invoked[k].task # PERFORM_DOWNLOAD /\ invoked[k].ok)
              => StatusIn(Current.data, invoked[k].task) = Str(invoked[k].out)
    /\ Rerun => (invoked = <<>> /\ ~dl.invoked)

(* C2: a run that starts with the download Completed and its output file   *)
(* present invokes the worker of no task that is Completed and, as long as *)
(* nothing outside the run acts, leaves the documents and the index as     *)
(* they were when it started.                                              *)
StartsCompleted ==
    /\ pc # "idle"
    /\ IsStr(StatusIn(start.data, PERFORM_DOWNLOAD))
    /\ StatusIn(start.data, PERFORM_DOWNLOAD).s \in start.files
C2_IdempotentRerun ==
    StartsCompleted =>
        /\ ~dl.invoked
        /\ \A k \in DOMAIN invoked : ~IsStr(StatusIn(start.data, invoked[k].task))
        /\ ~ext => (docs = start.docs /\ index = start.index)
(* A second run has ended that skipped a Completed task and ran a Pending  *)
(* one again.                                                              *)
C2_Witness ==
    /\ StartsCompleted
    /\ start.prev = "Done"
    /\ ~ext
    /\ outcome = "Done"
    /\ invoked # <<>>
    /\ \E k \in DOMAIN task_config :
          IsStr(task_config[k][2]) /\ task_config[k][1] # PERFORM_DOWNLOAD


(* C3: task state is monotonic: no write_masked_metadata_with_tasks or     *)
(* update_task_output_path call takes an entry that is Completed(p) to     *)
(* Pending, Skipped, Unconfigured or Completed(q) with q different from p. *)
C3_CompletedStays ==
    \A f \in DocPaths, task \in StoreTasks :
        (docs[f] # NoDoc /\ IsStr(StatusIn(docs[f], task)))
            => (docs'[f] # NoDoc
                /\ StatusIn(docs'[f], task) = StatusIn(docs[f], task))
C3_MonotonicTaskState == [][C3_CompletedStays]_vars

(* C4: the download worker is invoked whenever the first lookup finds no   *)
(* Document or a Document whose download task is not Completed(path), a    *)
(* Pending one included.                                                   *)
C4_DownloadWhenNotCompleted ==
    (PastDownload /\ ~IsStr(StatusIn(start.data, PERFORM_DOWNLOAD)))
        => dl.invoked

(* C5: a task whose worker failed is not Completed afterwards: the         *)
(* download that fetched nothing leaves its task without an output path,   *)
(* and a failed task of execute_tasks stays Pending.                       *)
C5_FailureStaysPending ==
    /\ (PastDownload /\ dl.invoked /\ ~dl.fetched)
           => ~IsStr(StatusIn(Current.data, PERFORM_DOWNLOAD))
    /\ \A k \in DOMAIN invoked :
          ~invoked[k].ok
              => StatusIn(Current.data, invoked[k].task) = True

(* C6: in a run that reached execute_tasks, every Pending task that has a  *)
(* script was invoked by the end of the run, whether or not the workers    *)
(* before it failed.                                                       *)
PendingEntries ==
    {k \in DOMAIN task_config :
        HasScript(task_config[k][1]) /\ task_config[k][2] = True}
C6_FailureDoesNotStopSiblings ==
    (pc = "done" /\ invoked # <<>>)
        => \A k \in PendingEntries : task_config[k][1] \in InvokedTasks
(* A run ended in which a worker failed and a later task was invoked.      *)
C6_Witness ==
    /\ pc = "done"
    /\ \E j, k \in DOMAIN invoked : j < k /\ ~invoked[j].ok

(* C7: when the Document is absent or its download task is not             *)
(* Completed(path) after the download step, the run has ended as           *)
(* NoMetadata or DownloadIncomplete and has invoked no other worker.       *)
C7_AbortWithoutDownload ==
    (PastResolve /\ ~IsStr(StatusIn(Current.data, PERFORM_DOWNLOAD)))
        => /\ pc = "done"
           /\ outcome \in {"NoMetadata", "DownloadIncomplete"}
           /\ invoked = <<>>
(* A run was aborted after a download attempt that left no Completed       *)
(* download task.                                                          *)
C7_Witness ==
    /\ pc = "done"
    /\ dl.invoked
    /\ outcome = "DownloadIncomplete"
    /\ Current.data # None

(* C8: a run that timed out waiting for the download's output file ends as *)
(* DownloadPending, has invoked no later worker, and leaves the download   *)
(* task of the Document as it was before the run.                          *)
C8_TimeoutLeavesDownloadState ==
    (pc = "done" /\ elapsed >= timeout_seconds)
        => /\ outcome = "DownloadPending"
           /\ invoked = <<>>
           /\ StatusIn(Current.data, PERFORM_DOWNLOAD)
                  = StatusIn(start.data, PERFORM_DOWNLOAD)

(* C9: a dry run invokes no worker, the download worker included, and      *)
(* changes no document and no index record.                                *)
C9_DryRunChangesNothing ==
    (pc # "idle" /\ dry_run /\ ~ext)
        => /\ ~dl.invoked
           /\ invoked = <<>>
           /\ docs = start.docs
           /\ index = start.index


(* C10: no worker, the download worker included, is invoked for a task     *)
(* that is Skipped (false) or Unconfigured (no key) in the Document.       *)
NotRunnable(status) == status \in {False, None}
TaskNames == {TASK_DISPATCH[k] : k \in DOMAIN TASK_DISPATCH}
SkippedNotInvoked ==
    \A k \in DOMAIN invoked :
        /\ found_file # NoPath
        /\ invoked[k].task # PERFORM_DOWNLOAD
              => ~NotRunnable(StatusIn(docs[found_file], invoked[k].task))
SkippedStays ==
    \A f \in DocPaths, task \in TaskNames :
        (docs[f] # NoDoc /\ NotRunnable(StatusIn(docs[f], task)))
            => StatusIn(docs'[f], task) = StatusIn(docs[f], task)
C11_InputsOfWorkers ==
    /\ dl.invoked => dl.input = url
    /\ \A k \in DOMAIN invoked :
          IF invoked[k].task = PERFORM_DOWNLOAD
          THEN invoked[k].input = [url |-> url]
          ELSE /\ found_file # NoPath
               /\ IsStr(StatusIn(docs[found_file], PERFORM_DOWNLOAD))
               /\ invoked[k].input
                      = [path |-> StatusIn(docs[found_file], PERFORM_DOWNLOAD).s]
(* A run ended in which the download worker and then two other workers     *)
(* were run.                                                               *)
C11_Witness ==
    /\ pc = "done"
    /\ dl.invoked
    /\ Len(invoked) >= 2
    /\ \A k \in DOMAIN invoked : invoked[k].task # PERFORM_DOWNLOAD


---------------------------------------------------------------------------
(* Properties of the URL index *)

(* The position of the last record of a url in the index.                  *)
LastOf(ix, u) == CHOOSE k \in Matching(ix, u) : \A j \in Matching(ix, u) : j <= k

(* C12: after an upsert that reached the rewrite the index holds exactly   *)
(* one record of the url, however many it held before.                     *)
C12_OneRecordAfterUpsert ==
    (call.op = "upsert" /\ call.dir # NoDir)
        => Cardinality(Matching(index, call.url)) = 1
(* An upsert found two records of its url.                                 *)
C12_Witness ==
    /\ call.op = "upsert"
    /\ call.dir # NoDir
    /\ call.held >= 2

(* C13: a lookup that returns a document returns the one named by the      *)
(* record of the url that is last by position, never an earlier one.       *)
C13_LookupTakesLast ==
    (call.op = "lookup" /\ Matching(index, call.url) # {})
        => LET last == index[LastOf(index, call.url)].metadata_file
           IN  /\ call.found.file \in {last, NoPath}
               /\ docs[last] # NoDoc => call.found.file = last
(* A lookup of a url with two records naming different documents, both of  *)
(* which exist, the later one appended by extract_metadata.                *)
C13_Witness ==
    /\ call.op = "lookup"
    /\ call.found.file # NoPath
    /\ \E j, k \in Matching(index, call.url) :
          /\ j < k
          /\ index[j].metadata_file # index[k].metadata_file
          /\ docs[index[j].metadata_file] # NoDoc
          /\ index[k].shortcode # NoUrl

(* C14: when the document of the last matching record is missing the       *)
(* lookup returns nothing, and it never returns a path without a document. *)
C14_MissingDocumentNotFound ==
    call.op = "lookup"
        => /\ (Matching(index, call.url) # {}
                   /\ docs[index[LastOf(index, call.url)].metadata_file] = NoDoc)
                => call.found = [file |-> NoPath, data |-> None]
           /\ (call.found.file = NoPath) <=> (call.found.data = None)
(* A lookup whose last record names a missing document while an earlier    *)
(* record of the url names one that exists.                                *)
C14_Witness ==
    /\ call.op = "lookup"
    /\ call.found.file = NoPath
    /\ \E j \in Matching(index, call.url) :
          /\ j < LastOf(index, call.url)
          /\ docs[index[j].metadata_file] # NoDoc
    /\ docs[index[LastOf(index, call.url)].metadata_file] = NoDoc

(* C15: after write_masked_metadata_with_tasks wrote a Document with url u *)
(* at path p, a lookup of u returns p and that Document.                   *)
C15_LookupAfterWrite ==
    call.op = "upsert"
        => /\ IsDoc(docs[call.file])
           /\ docs[call.file].url = call.url
           /\ find_url_json(call.url, index, docs)
                  = [file |-> call.file, data |-> docs[call.file]]

(* C16: a crash during the rewrite of the index leaves either the records  *)
(* the index held before or the filtered and appended records.             *)
C16_CrashStep ==
    \A u \in RunUrls : \A f \in PathsOf(u) : \A n \in 0..MaxRecords :
        CreateOrOverwriteCrash(f, u, n)
            => \/ index' = index
               \/ index' = upsert_metadata_index(index, METADATA_DIR, f, docs'[f])
C16_UpsertAllOrNothing == [][C16_CrashStep]_vars


---------------------------------------------------------------------------
(* Properties of the document store *)

(* C17: update_task_output_path and extend_metadata_with_task_output       *)
(* called with a task that is no key of default_tasks leave the documents  *)
(* as they are.                                                            *)
C17_UnknownTaskStep ==
    \A f \in StorePaths, task \in StoreTasks, p \in StoreOutputs :
        (/\ UpdateTaskOutputPath(f, task, p) \/ ExtendMetadataWithTaskOutput(f, task, p)
         /\ IsDoc(docs[f])
         /\ ~Has(DefaultTasks(docs[f]), task))
            => docs' = docs
C17_UnknownTaskIsNoOp == [][C17_UnknownTaskStep]_vars

(* C18: update_task_output_path and extend_metadata_with_task_output       *)
(* called with an empty output path leave every document as it is.         *)
C18_EmptyOutputStep ==
    \A f \in StorePaths, task \in StoreTasks :
        (UpdateTaskOutputPath(f, task, NoPath)
            \/ ExtendMetadataWithTaskOutput(f, task, NoPath))
            => docs' = docs
C18_EmptyOutputIsNoOp == [][C18_EmptyOutputStep]_vars
(* update_task_output_path was called with an empty output path for a      *)
(* Pending task of a document that exists.                                 *)
C18_Witness ==
    /\ call.op = "update"
    /\ call.output_path = NoPath
    /\ IsDoc(docs[call.file])
    /\ StatusIn(docs[call.file], call.task) = True

(* C19: write_masked_metadata_with_tasks on a path that holds a Document   *)
(* keeps every entry that is Completed(p), the download's included.        *)
C19_OverwriteStep ==
    \A f \in StorePaths, u \in RunUrls, p \in StoreOutputs :
        WriteMaskedMetadata(f, u, p)
            => \A task \in StoreTasks :
                  IsStr(StatusIn(docs[f], task))
                      => StatusIn(docs'[f], task) = StatusIn(docs[f], task)
C19_OverwriteKeepsCompleted == [][C19_OverwriteStep]_vars

(* C20: the Document write_masked_metadata_with_tasks leaves has no        *)
(* top-level field besides url, default_tasks and allow-listed ones.       *)
C20_OnlyAllowListed ==
    call.op = "write"
        => /\ IsDoc(docs[call.file])
           /\ docs[call.file].has_tasks
           /\ docs[call.file].keys \subseteq MASKED_KEYS
(* The call overwrote a raw dump of the extractor, and its params held     *)
(* keys that are not allow-listed.                                         *)
C20_Witness ==
    /\ call.op = "write"
    /\ \E key \in call.prior : key \notin MASKED_KEYS
    /\ docs[call.file].keys # {}
    /\ \E key \in ParamKeys(docs[call.file].id, NoPath) : key \notin MASKED_KEYS


---------------------------------------------------------------------------
(* Properties of a document file over its lifetime *)

(* C21: once a document file holds a Document with a url, no call of       *)
(* write_masked_metadata_with_tasks or update_task_output_path on that     *)
(* file leaves a Document with another url.                                *)
C21_UrlStep ==
    \A f \in DocPaths :
        (IsDoc(docs[f]) /\ docs[f].url # NoUrl /\ IsDoc(docs'[f]))
            => docs'[f].url = docs[f].url
C21_UrlNeverChanges == [][C21_UrlStep]_vars

(* C22: a document file whose content does not parse is left as it is by   *)
(* find_url_json, update_task_output_path and                              *)
(* write_masked_metadata_with_tasks.                                       *)
C22_CorruptStep ==
    \A f \in DocPaths : docs[f] = Corrupt => docs'[f] = Corrupt
C22_CorruptLeftUntouched == [][C22_CorruptStep]_vars


---------------------------------------------------------------------------
(* Properties of the cleanup *)

(* C23: after a cleanup that is no dry run and whose rewrite of index.jsonl *)
(* did not fail, the index holds no record of the url, whatever wrote the  *)
(* records it held.                                                        *)
C23_CleanupRemovesAllRecords ==
    (call.op = "cleanup" /\ ~call.dry_run /\ ~call.crashed)
        => Matching(index, call.url) = {}
(* A cleanup removed a record appended by extract_metadata and a record    *)
(* written by upsert_metadata_index.                                       *)
C23_Witness ==
    /\ call.op = "cleanup"
    /\ ~call.dry_run
    /\ ~call.crashed
    /\ call.report.index >= 2
    /\ \E j, k \in DOMAIN call.records :
          call.records[j].shortcode = NoUrl /\ call.records[k].shortcode # NoUrl

(* The files a step removed, by kind.                                      *)
RemovedDocs == {f \in DocPaths : docs[f] # NoDoc /\ docs'[f] = NoDoc}
RemovedPaths ==
    [docs |-> RemovedDocs, raw |-> raw \ raw', parts |-> parts \ parts',
     sidecars |-> sidecars \ sidecars']
(* The files a report names, by kind.                                      *)
ReportedPaths(report) ==
    [docs |-> report.metadata \cup report.json_docs, raw |-> report.raw,
     parts |-> report.partials, sidecars |-> report.json_sidecars]
(* The counts a run prints, lines 267-275.                                 *)
Counts(report) ==
    [index |-> report.index,
     metadata |-> Cardinality(report.metadata),
     raw |-> Cardinality(report.raw),
     sidecars |-> Cardinality(report.json_docs) + Cardinality(report.json_sidecars),
     partials |-> Cardinality(report.partials)]

(* C24: a cleanup without faults removes the paths and prints the counts   *)
(* that a dry run on the file system it started from reports, for every    *)
(* output_dir.                                                             *)
C24_DryRunStep ==
    \A u \in RunUrls, skip \in BOOLEAN, d \in OutputDirs :
        Cleanup(u, FALSE, skip, d, NoFault)
            => LET dry == cleanup(FS, u, TRUE, skip, d, NoFault).report
               IN  /\ ReportedPaths(dry) = RemovedPaths
                   /\ Counts(dry) = Counts(call'.report)
C24_DryRunEqualsRealRun == [][C24_DryRunStep]_vars

(* C25: a dry run of the cleanup leaves the index, the documents, the raw  *)
(* captures, the partial downloads, the sidecars and the directories as    *)
(* they were.                                                              *)
C25_DryRunStep ==
    \A u \in RunUrls, skip \in BOOLEAN, d \in OutputDirs :
        Cleanup(u, TRUE, skip, d, NoFault)
            => UNCHANGED <<index, docs, raw, parts, sidecars, files, dirs>>
C25_DryRunMutatesNothing == [][C25_DryRunStep]_vars

(* C26: in a cleanup that is no dry run, whatever fails, every file the    *)
(* run without the fault would remove and whose unlink did not fail is     *)
(* removed, and the index is rewritten unless its rewrite failed.          *)
C26_FaultStep ==
    \A u \in RunUrls, skip \in BOOLEAN, d \in OutputDirs, fault \in Faults :
        Cleanup(u, FALSE, skip, d, fault)
            => LET ideal == cleanup(FS, u, FALSE, skip, d, NoFault)
                   due == ReportedPaths(ideal.report)
               IN  /\ due.docs \ fault.docs \subseteq RemovedPaths.docs
                   /\ due.raw \ fault.raw \subseteq RemovedPaths.raw
                   /\ due.parts \ fault.parts \subseteq RemovedPaths.parts
                   /\ due.sidecars \ fault.sidecars \subseteq RemovedPaths.sidecars
                   /\ ~fault.index => index' = ideal.fs.index
C26_FailureDoesNotStopOthers == [][C26_FaultStep]_vars

(* C27: a cleanup leaves every raw capture and every partial download      *)
(* whose name has none of the tokens of the documents and index records    *)
(* that match the url.                                                     *)
DerivedTokens(u) ==
    Join(collect_tokens_from_records(docs, find_metadata_files_for_url(docs, u)),
         RecordTokens(remove_matching_index_lines(index, u).removed_records))
(* A step of a cleanup: the run is counted and logged.                     *)
CleanupStep == runs' # runs /\ call'.op = "cleanup"
C27_FrameStep ==
    CleanupStep
        => LET tokens == DerivedTokens(call'.url)
           IN  /\ \A r \in raw : ~RawNameHas(r, tokens) => r \in raw'
               /\ \A q \in parts : ~PartNameHas(q, tokens) => q \in parts'
C27_UnrelatedFilesUntouched == [][C27_FrameStep]_vars

(* C27, amended: a cleanup leaves every raw capture whose name has neither *)
(* the last segment of the url nor a token of the documents and index      *)
(* records that match the url, and every partial download whose name has   *)
(* none of these and the stem of no sidecar written for the url.           *)
CleanupTokens(u) ==
    Join(DerivedTokens(u),
         [ids |-> {slug_from_url(u)}, uploaders |-> {},
          stems |-> {<<x[1][1], x[1][2]>> : x \in {sc \in sidecars : sc[2] = u}}])
C27_AmendedStep ==
    CleanupStep
        => LET tokens == CleanupTokens(call'.url)
           IN  /\ \A r \in raw : ~RawNameHas(r, tokens) => r \in raw'
               /\ \A q \in parts : ~PartNameHas(q, tokens) => q \in parts'
C27_FilesWithoutTokenUntouched == [][C27_AmendedStep]_vars
(* A cleanup removed the raw capture and a partial download of its url and *)
(* left those of another url.                                              *)
C27_Witness ==
    /\ call.op = "cleanup"
    /\ ~call.dry_run
    /\ call.report.raw # {}
    /\ call.report.partials # {}
    /\ \E u \in URLS \ {call.url} :
          /\ IdOf(u) \in raw
          /\ \E q \in parts : q[1] = UPLOADER_DATE(u)


---------------------------------------------------------------------------
(* Properties of concurrent writers of the index *)

(* C28: when a process for each URL has finished an upsert or an append of *)
(* its record, whatever the order of their reads and writes, the index     *)
(* holds a record of each URL.                                             *)
C28_WritersKeepEveryUrl ==
    (\A u \in URLS : writers[u].pc = "done")
        => \A u \in URLS : Matching(index, u) # {}


---------------------------------------------------------------------------
(* Properties of the wait for the downloaded file *)

(* C29: wait_for_download_file returns, whether or not the file appears:   *)
(* a run that waits for the file goes on to the tasks or ends, and it      *)
(* never waits longer than timeout_seconds.                                *)
C29_WaitTerminates ==
    /\ [](elapsed <= timeout_seconds)
    /\ (pc \in {"wait", "poll"}) ~> (pc \in {"tasks", "done"})
(* A run waited until the deadline for a file that did not appear.         *)
C29_Witness ==
    /\ pc = "done"
    /\ outcome = "DownloadPending"
    /\ elapsed = timeout_seconds
    /\ to_process \notin files


(* C30: a run whose file is absent at the first check polls for it, with   *)
(* or without a partial file at that check, and a check made before the    *)
(* deadline that finds the file goes on to the tasks.                      *)
C30_WaitStep ==
    /\ (pc = "wait" /\ to_process \notin files) => pc' \in {"wait", "poll"}
    /\ (pc \in {"wait", "poll"} /\ to_process \in files /\ elapsed < timeout_seconds)
           => pc' \in {pc, "tasks"}
C30_AppearingFileDetected == [][C30_WaitStep]_vars

(* C30, amended: a run whose file is absent at the first check polls for   *)
(* it when a partial file of it is there, and ends at once when none is;   *)
(* a check made before the deadline that finds the file goes on to the     *)
(* tasks.                                                                  *)
C30_AmendedStep ==
    /\ (pc = "wait" /\ to_process \notin files)
           => IF PartCandidates(to_process) # {} THEN pc' \in {"wait", "poll"}
              ELSE pc' \in {"wait", "done"} /\ elapsed' = elapsed
    /\ (pc \in {"wait", "poll"} /\ to_process \in files /\ elapsed < timeout_seconds)
           => pc' \in {pc, "tasks"}
C30_PartialThenFileDetected == [][C30_AmendedStep]_vars
(* A run found the file at a poll after it had slept, before the deadline. *)
C30_Witness ==
    /\ pc = "tasks"
    /\ elapsed > 0
    /\ elapsed < timeout_seconds
    /\ to_process \in files


---------------------------------------------------------------------------
(* Properties of the order of the tasks *)

(* C31: the scripts one run of the router runs are run in the order of     *)
(* TASK_DISPATCH (download, watermark, clips, audio, captions,             *)
(* post-process), whatever the order of the keys of default_tasks in the   *)
(* document.                                                               *)
Position(task) == CHOOSE k \in DOMAIN TASK_DISPATCH : TASK_DISPATCH[k] = task
C31_RegistryOrder ==
    \A j, k \in DOMAIN invoked :
        j < k => Position(invoked[j].task) < Position(invoked[k].task)


---------------------------------------------------------------------------
(* Properties of the cleanup and the lookups and runs around it *)

(* C32: a cleanup that is no dry run and finds no record of the url in the *)
(* index, or no index, removes every document with that url, unless the    *)
(* unlink of a document fails.                                             *)
WithUrl(dd, u) == {f \in DocPaths : IsDoc(dd[f]) /\ dd[f].url = u}
C32_UnindexedStep ==
    (CleanupStep /\ ~call'.dry_run /\ call'.failed.docs = {}
         /\ Matching(index, call'.url) = {})
        => WithUrl(docs', call'.url) = {}
C32_RemovesUnindexedDocuments == [][C32_UnindexedStep]_vars
(* A cleanup removed a document of a url the index had no record of.       *)
C32_Witness ==
    /\ call.op = "cleanup"
    /\ ~call.dry_run
    /\ call.records = <<>>
    /\ call.failed.docs = {}
    /\ call.report.metadata # {}
    /\ WithUrl(docs, call.url) = {}


---------------------------------------------------------------------------
(* Properties of a missing configuration *)

(* C33: while the task registry is missing no document is written, and a   *)
(* run of the router that finds no configuration ends with an exit status  *)
(* other than 0.                                                           *)
C33_MissingStep == registry = Missing => docs' = docs
C33_MissingRegistryIsFatal ==
    /\ [][C33_MissingStep]_vars
    /\ [](outcome = "UnexpectedError" => ExitStatus(outcome) # 0)


---------------------------------------------------------------------------
(* Properties of the documents of a URL *)

(* C34: whatever runs of the router there have been, repeated downloads    *)
(* included, at most one document has a given url.                         *)
C34_OneDocumentPerUrl ==
    \A u \in URLS : Cardinality(WithUrl(docs, u)) <= 1


(* C35: after a cleanup that is no dry run and in which nothing failed, a  *)
(* lookup of the url finds nothing, and the run of the router that follows *)
(* finds nothing and runs the download script.                             *)
CleanCleanup ==
    /\ call.op = "cleanup"
    /\ ~call.dry_run
    /\ ~call.crashed
    /\ call.failed = NoneRaised
C35_DownloadAgainAfterCleanup ==
    CleanCleanup
        => /\ runs = call.at => find_url_json(call.url, index, docs).file = NoPath
           /\ (runs = call.at + 1 /\ url = call.url)
                  => /\ start.data = None
                     /\ pc = "download" \/ dl.invoked
(* A cleanup removed the record and the document a run had left, and the   *)
(* next run has run the download script.                                   *)
C35_Witness ==
    /\ CleanCleanup
    /\ call.report.index > 0
    /\ call.report.metadata # {}
    /\ runs = call.at + 1
    /\ url = call.url
    /\ pc = "resolve"
    /\ dl.invoked


(* C36: a cleanup deletes no document whose url is another one than the    *)
(* url it is run for, whatever file the index records of its url name.     *)
C36_OtherUrlStep ==
    CleanupStep
        => \A f \in DocPaths :
              (IsDoc(docs[f]) /\ docs[f].url # call'.url) => docs'[f] = docs[f]
C36_KeepsDocumentsOfOtherUrls == [][C36_OtherUrlStep]_vars


(* C37: an upsert and a cleanup for a url leave the index records of the   *)
(* other urls as they were, in their order, and a cleanup leaves what a    *)
(* lookup of another url finds as it was.                                  *)
Others(ix, u) == SelectSeq(ix, LAMBDA r : r.url # u)
C37_OtherRecordsStep ==
    /\ (call'.op = "write" /\ IsDoc(docs'[call'.file]))
           => Others(index', docs'[call'.file].url)
                  = Others(index, docs'[call'.file].url)
    /\ CleanupStep
           => /\ Others(index', call'.url) = Others(index, call'.url)
              /\ \A v \in URLS \ {call'.url} :
                    find_url_json(v, index', docs') = find_url_json(v, index, docs)
C37_OtherUrlsUnaffected == [][C37_OtherRecordsStep]_vars


(* C38: between the commands, every record of the index names a document   *)
(* file that exists.                                                       *)
C38_RecordsNameExistingFiles ==
    \A k \in DOMAIN index : docs[index[k].metadata_file] # NoDoc

(* C39: a cleanup that is not a dry run, run for the same url and with the *)
(* same search of the output directory right after a cleanup that was not  *)
(* a dry run, did not end in a traceback and in which no unlink raised,    *)
(* reports nothing removed in any category and leaves the index and every  *)
(* file as the first run left them.                                        *)
C39_SecondStep ==
    (CleanCleanup /\ CleanupStep /\ ~call'.dry_run
         /\ call'.url = call.url /\ call'.searched = call.searched)
        => /\ call'.report = NoReport
           /\ call'.records = <<>>
           /\ ~call'.crashed /\ call'.failed = NoneRaised
           /\ UNCHANGED <<index, docs, raw, parts, sidecars, dirs, files>>
C39_CleanupIdempotent == [][C39_SecondStep]_vars
(* The second of two such cleanups, after a first that removed an index    *)
(* record, a document, a raw capture, a sidecar and a partial download.    *)
C39_Witness ==
    /\ CleanCleanup /\ call.report = NoReport /\ call.searched # NoDir
    /\ call.at = 2 /\ runs = 3
    /\ index = <<>> /\ WithUrl(docs, call.url) = {}
    /\ raw = {} /\ parts = {} /\ sidecars = {}
    /\ OUTPUT_DIR \in dirs
    /\ \E f \in files : f[1] = UPLOADER_DATE(call.url)

====
